---- MODULE Spec2Model ----
(***************************************************************************)
(* Cross-chain Aave rebalancing (0xGabi/reil): the position health         *)
(* evaluator (healthFactor.ts), the distribution optimizer                 *)
(* (optimization.ts) and crossChainRebalanceAavePositions (rebalance.ts):  *)
(* its filters, its plan, its greedy pairing and the batches it builds,    *)
(* and the wallet polling of fetchWalletClient (eil.ts), as a state        *)
(* machine.                                                                *)
(*                                                                         *)
(* Arithmetic.  The code computes on bigint, which has no width.  TLC's    *)
(* integers have 32 bits, so every 18-decimal quantity (healthFactor,      *)
(* minHealthFactor, targetHealthFactor, liquidationThresholdScaled) is     *)
(* carried here in units of 10^12: parseUnits('1.2', 18) is 1200000 and    *)
(* the code's factor 10n ** 14n is 100.  Every quotient of the code has    *)
(* one 18-decimal factor in its numerator and one in its denominator, and  *)
(* floor((a * U) / (b * U)) = floor(a / b), so each quotient below is the  *)
(* code's quotient, exactly, for ratios that are multiples of 10^12.       *)
(* Collateral and debt (8 decimals) and the liquidation threshold (basis   *)
(* points) are carried as they are.                                        *)
(***************************************************************************)
EXTENDS Integers, Sequences, FiniteSets, TLC

VARIABLES
    pc,                 \* where crossChainRebalanceAavePositions stands
    positions,          \* its argument: the fetched positions, one per chain
    minHealthFactor,    \* its argument
    unhealthyPositions, \* rebalance.ts:43
    healthyPositions,   \* rebalance.ts:46
    optimalWithdrawals, \* rebalance.ts:59
    optimalSupplies,    \* rebalance.ts:59
    error,              \* the exception the call ended with, "none" if none
    warned,             \* rebalance.ts:72: the console.warn was emitted
    voucherRequests,    \* rebalance.ts:83: the transfers of the greedy pairing
    network,            \* what the chains answer while the batches are built
    batches,            \* rebalance.ts:160: batchesByChain
    callOp,             \* the evaluator function called (SpecEval)
    callPosition,       \* its position argument
    callRatio,          \* its threshold / target / min health factor argument
    callOutcome,        \* what the call returned or raised
    attempt,            \* eil.ts:29: the loop counter of fetchWalletClient
    accounts,           \* what getAccount gave at each check so far
    delays,             \* the waits of eil.ts:47 that have passed
    walletClient        \* what fetchWalletClient ended with, "pending" before

vars == <<pc, positions, minHealthFactor, unhealthyPositions, healthyPositions,
          optimalWithdrawals, optimalSupplies, error,
          warned, voucherRequests, network, batches,
          callOp, callPosition, callRatio, callOutcome,
          attempt, accounts, delays, walletClient>>

builderVars == <<warned, voucherRequests, network, batches>>

rebalanceVars == <<pc, positions, minHealthFactor, unhealthyPositions,
                   healthyPositions, optimalWithdrawals, optimalSupplies, error,
                   warned, voucherRequests, network, batches>>

callVars == <<callOp, callPosition, callRatio, callOutcome>>

walletVars == <<attempt, accounts, delays, walletClient>>

\* What a call of fetchWalletClient leaves alone.
notWalletVars == <<positions, minHealthFactor, unhealthyPositions, healthyPositions,
                   optimalWithdrawals, optimalSupplies, error,
                   warned, voucherRequests, network, batches,
                   callOp, callPosition, callRatio, callOutcome>>

(***************************************************************************)
(* Bounds of the model.                                                    *)
(***************************************************************************)
\* Chains a rebalance call is given positions of (the app fetches 4).
NumChains == 3
\* The evaluator's inputs include every small amount 0..MaxSmallAmount.
MaxSmallAmount == 1

(***************************************************************************)
(* Program constants.                                                      *)
(***************************************************************************)
\* 10n ** 14n, in units of 10^12 (see the note on arithmetic above).
ScaleFactor == 100
\* parseUnits('1.2', 18), in units of 10^12.
DefaultMinHealthFactor == 1200000
\* parseUnits('1.5', 18), in units of 10^12: the earlier callers' threshold.
EarlierHealthFactorThreshold == 1500000
\* parseUnits('2.0', 18), in units of 10^12: calculateRepayAmount's default.
DefaultTargetHealthFactor == 2000000

(***************************************************************************)
(* Values: what a function returned, or the exception it ended with.       *)
(***************************************************************************)
Return(v) == [raised |-> FALSE, exception |-> "none", value |-> v]

\* bigint division by 0n throws RangeError: Division by zero.
RangeError == [raised |-> TRUE, exception |-> "RangeError", value |-> 0]

AavePosition(chainId, healthFactor, collateral, debt, threshold) ==
    [chainId |-> chainId,
     healthFactor |-> healthFactor,
     totalCollateralBase |-> collateral,
     totalDebtBase |-> debt,
     currentLiquidationThreshold |-> threshold]

NoPosition == AavePosition(0, 0, 0, 0, 0)

(***************************************************************************)
(* healthFactor.ts                                                         *)
(***************************************************************************)
\* isPositionUnhealthy without the test for the health factor 0 of no debt.
UnhealthyWithoutSentinel(position, threshold) ==
    position.healthFactor < threshold

isPositionUnhealthy(position, threshold) ==
    IF position.healthFactor = 0 THEN FALSE
    ELSE position.healthFactor < threshold

liquidationThresholdScaled(position) ==
    position.currentLiquidationThreshold * ScaleFactor

calculateRepayAmount(position, targetHealthFactor) ==
    IF position.totalDebtBase = 0 \/ position.healthFactor = 0 THEN Return(0)
    ELSE LET numerator == position.totalCollateralBase * liquidationThresholdScaled(position)
         IN  IF targetHealthFactor = 0 THEN RangeError
             ELSE LET targetDebt == numerator \div targetHealthFactor
                      repayAmount == position.totalDebtBase - targetDebt
                  IN  Return(IF repayAmount > 0 THEN repayAmount ELSE 0)

\* 10^6: an 18-decimal ratio carried in units of 10^12 is the ratio divided
\* by 10^6 twice.
RatioUnitRoot == 1000000

\* index.ts:171-189, the earlier calculateRepayAmount that rebalanceAavePositions
\* of index.ts calls: the numerator has no factor 10n ** 14n, so the quotient
\* is collateral * liquidationThreshold over the whole 18-decimal target,
\* floor(n / (t * 10^12)) = floor(floor(floor(n / t) / 10^6) / 10^6).
calculateRepayAmountEarlier(position, targetHealthFactor) ==
    IF position.totalDebtBase = 0 \/ position.healthFactor = 0 THEN Return(0)
    ELSE LET numerator == position.totalCollateralBase * position.currentLiquidationThreshold
         IN  IF targetHealthFactor = 0 THEN RangeError
             ELSE LET targetDebt ==
                          ((numerator \div targetHealthFactor) \div RatioUnitRoot)
                              \div RatioUnitRoot
                      repayAmount == position.totalDebtBase - targetDebt
                  IN  Return(IF repayAmount > 0 THEN repayAmount ELSE 0)

\* calculateCollateralNeeded dividing by the unscaled liquidation threshold,
\* as the earlier version of index.ts:320-338 does.
CollateralNeededUnscaled(position, targetHealthFactor) ==
    IF position.totalDebtBase = 0 \/ position.healthFactor = 0 THEN Return(0)
    ELSE IF position.currentLiquidationThreshold = 0 THEN RangeError
    ELSE LET targetCollateral ==
                 (targetHealthFactor * position.totalDebtBase)
                     \div position.currentLiquidationThreshold
         IN  Return(IF targetCollateral > position.totalCollateralBase
                    THEN targetCollateral - position.totalCollateralBase
                    ELSE 0)

calculateCollateralNeeded(position, targetHealthFactor) ==
    IF position.totalDebtBase = 0 \/ position.healthFactor = 0 THEN Return(0)
    ELSE IF liquidationThresholdScaled(position) = 0 THEN RangeError
    ELSE LET targetCollateral ==
                 (targetHealthFactor * position.totalDebtBase)
                     \div liquidationThresholdScaled(position)
         IN  Return(IF targetCollateral > position.totalCollateralBase
                    THEN targetCollateral - position.totalCollateralBase
                    ELSE 0)

\* calculateMaxWithdrawable letting a position without debt give all its
\* collateral instead of half.
MaxWithdrawableAllWhenNoDebt(position, minHF) ==
    IF position.totalDebtBase = 0 \/ position.healthFactor = 0
    THEN Return(position.totalCollateralBase)
    ELSE IF liquidationThresholdScaled(position) = 0 THEN RangeError
    ELSE LET minCollateralNeeded ==
                 (minHF * position.totalDebtBase)
                     \div liquidationThresholdScaled(position)
         IN  Return(IF position.totalCollateralBase > minCollateralNeeded
                    THEN position.totalCollateralBase - minCollateralNeeded
                    ELSE 0)

calculateMaxWithdrawable(position, minHF) ==
    IF position.totalDebtBase = 0 \/ position.healthFactor = 0
    THEN Return(position.totalCollateralBase \div 2)
    ELSE IF liquidationThresholdScaled(position) = 0 THEN RangeError
    ELSE LET minCollateralNeeded ==
                 (minHF * position.totalDebtBase)
                     \div liquidationThresholdScaled(position)
         IN  Return(IF position.totalCollateralBase > minCollateralNeeded
                    THEN position.totalCollateralBase - minCollateralNeeded
                    ELSE 0)

(***************************************************************************)
(* Map<number, bigint>: a function on the keys set so far.                 *)
(***************************************************************************)
EmptyMap == [k \in {} |-> 0]

\* map.get(k) || 0n
MapGet(map, k) == IF k \in DOMAIN map THEN map[k] ELSE 0

\* map.set(k, v)
MapSet(map, k, v) == [x \in DOMAIN map \cup {k} |-> IF x = k THEN v ELSE map[x]]

RECURSIVE SumOver(_, _)
SumOver(map, keys) ==
    IF keys = {} THEN 0
    ELSE LET k == CHOOSE x \in keys : TRUE
         IN  map[k] + SumOver(map, keys \ {k})

\* Array.from(map.values()).reduce((sum, amt) => sum + amt, 0n)
MapSum(map) == SumOver(map, DOMAIN map)

(***************************************************************************)
(* Array.prototype.sort with the code's comparators.  The comparators      *)
(* never return 0: for two positions of equal health factor, and for two   *)
(* of health factor 0, compare(a, b) and compare(b, a) are both 1.  Where  *)
(* the comparator is not consistent the order is the engine's choice, so   *)
(* a sort yields any permutation that keeps every pair the comparator      *)
(* orders consistently.                                                    *)
(***************************************************************************)
\* optimization.ts:42-46 and rebalance.ts:91-95: worst health factor first.
CompareWorstFirst(a, b) ==
    IF a.healthFactor = 0 THEN 1
    ELSE IF b.healthFactor = 0 THEN -1
    ELSE IF a.healthFactor < b.healthFactor THEN -1 ELSE 1

\* optimization.ts:68-73 and 98-103: highest health factor first.
CompareHighestFirst(a, b) ==
    IF a.healthFactor = 0 THEN 1
    ELSE IF b.healthFactor = 0 THEN -1
    ELSE IF a.healthFactor > b.healthFactor THEN -1 ELSE 1

IndexOrders(n) ==
    {p \in [1..n -> 1..n] : \A i, j \in 1..n : i # j => p[i] # p[j]}

\* The copies of the array, [...array], in every order.
Reorderings(array) ==
    {[i \in 1..Len(array) |-> array[p[i]]] : p \in IndexOrders(Len(array))}

\* [...unhealthyPositions].sort(...) of optimization.ts:42-46.
SortedWorstFirst(array) ==
    {s \in Reorderings(array) :
        \A i, j \in 1..Len(s) :
            i < j => ~(CompareWorstFirst(s[j], s[i]) < 0 /\ CompareWorstFirst(s[i], s[j]) > 0)}

\* The sort of the healthy positions with the sentinel 0 taken for the
\* highest health factor: debt-free positions first.
SortedDebtFreeFirst(array) ==
    {s \in Reorderings(array) :
        \A i, j \in 1..Len(s) :
            i < j => /\ (s[i].healthFactor = 0 \/ s[j].healthFactor # 0)
                     /\ (s[i].healthFactor # 0 /\ s[j].healthFactor # 0) =>
                            s[i].healthFactor >= s[j].healthFactor}

\* [...healthyPositions].sort(...) of optimization.ts:68-73 and 98-103.
SortedHighestFirst(array) ==
    {s \in Reorderings(array) :
        \A i, j \in 1..Len(s) :
            i < j => ~(CompareHighestFirst(s[j], s[i]) < 0
                           /\ CompareHighestFirst(s[i], s[j]) > 0)}

(***************************************************************************)
(* optimization.ts: optimizeRebalanceDistribution                          *)
(***************************************************************************)
RECURSIVE NeedsLoop(_, _, _, _)
NeedsLoop(unhealthy, i, minHF, needs) ==
    IF i > Len(unhealthy) THEN needs
    ELSE NeedsLoop(unhealthy, i + 1, minHF,
                   MapSet(needs, unhealthy[i].chainId,
                          calculateCollateralNeeded(unhealthy[i], minHF).value))

needsByChain(unhealthy, minHF) == NeedsLoop(unhealthy, 1, minHF, EmptyMap)

RECURSIVE AvailableLoop(_, _, _, _)
AvailableLoop(healthy, i, minHF, available) ==
    IF i > Len(healthy) THEN available
    ELSE AvailableLoop(healthy, i + 1, minHF,
                       MapSet(available, healthy[i].chainId,
                              calculateMaxWithdrawable(healthy[i], minHF).value))

availableByChain(healthy, minHF) == AvailableLoop(healthy, 1, minHF, EmptyMap)

\* An exception of calculateCollateralNeeded or calculateMaxWithdrawable leaves
\* the loops above and optimizeRebalanceDistribution.
EvaluatorRaises(healthy, unhealthy, minHF) ==
    \/ \E i \in 1..Len(unhealthy) : calculateCollateralNeeded(unhealthy[i], minHF).raised
    \/ \E i \in 1..Len(healthy) : calculateMaxWithdrawable(healthy[i], minHF).raised

totalNeeded(unhealthy, minHF) == MapSum(needsByChain(unhealthy, minHF))

totalAvailable(healthy, minHF) == MapSum(availableByChain(healthy, minHF))

\* Allocation with the quotient rounded up instead of down.
AllocationRoundedUp(needed, available, total) ==
    IF available > 0 THEN (needed * available + total - 1) \div total ELSE 0

\* The proportional share of one unhealthy chain (lines 57-59).
Allocation(needed, available, total) ==
    IF available > 0 THEN (needed * available) \div total ELSE 0

\* ProportionalSuppliesLoop giving each chain, worst first, all it needs of
\* what is left, instead of its proportional share.
RECURSIVE GreedySuppliesLoop(_, _, _, _, _, _)
GreedySuppliesLoop(sortedUnhealthy, i, available, total, supplies, remainingNeeded) ==
    IF i > Len(sortedUnhealthy) THEN supplies
    ELSE LET chainId == sortedUnhealthy[i].chainId
             needed == MapGet(remainingNeeded, chainId)
             allocation == IF needed < available THEN needed ELSE available
         IN  IF needed = 0 \/ allocation <= 0
             THEN GreedySuppliesLoop(sortedUnhealthy, i + 1, available, total,
                                     supplies, remainingNeeded)
             ELSE GreedySuppliesLoop(sortedUnhealthy, i + 1, available - allocation, total,
                      MapSet(supplies, chainId, MapGet(supplies, chainId) + allocation),
                      MapSet(remainingNeeded, chainId, needed - allocation))

\* Lines 52-65.
RECURSIVE ProportionalSuppliesLoop(_, _, _, _, _, _)
ProportionalSuppliesLoop(sortedUnhealthy, i, available, total, supplies, remainingNeeded) ==
    IF i > Len(sortedUnhealthy) THEN supplies
    ELSE LET chainId == sortedUnhealthy[i].chainId
             needed == MapGet(remainingNeeded, chainId)
             allocation == Allocation(needed, available, total)
         IN  IF needed = 0 \/ allocation <= 0
             THEN ProportionalSuppliesLoop(sortedUnhealthy, i + 1, available, total,
                                           supplies, remainingNeeded)
             ELSE ProportionalSuppliesLoop(sortedUnhealthy, i + 1, available, total,
                      MapSet(supplies, chainId, MapGet(supplies, chainId) + allocation),
                      MapSet(remainingNeeded, chainId, needed - allocation))

\* Lines 75-86.
RECURSIVE ShortfallWithdrawLoop(_, _, _, _, _)
ShortfallWithdrawLoop(sortedHealthy, i, withdrawals, remainingToWithdraw, remainingAvailable) ==
    IF i > Len(sortedHealthy) \/ remainingToWithdraw = 0 THEN withdrawals
    ELSE LET chainId == sortedHealthy[i].chainId
             available == MapGet(remainingAvailable, chainId)
             withdrawAmount == IF available < remainingToWithdraw
                               THEN available ELSE remainingToWithdraw
         IN  IF available = 0
             THEN ShortfallWithdrawLoop(sortedHealthy, i + 1, withdrawals,
                                        remainingToWithdraw, remainingAvailable)
             ELSE ShortfallWithdrawLoop(sortedHealthy, i + 1,
                      MapSet(withdrawals, chainId, MapGet(withdrawals, chainId) + withdrawAmount),
                      remainingToWithdraw - withdrawAmount,
                      MapSet(remainingAvailable, chainId, available - withdrawAmount))

\* Lines 90-94.
ExactSupplies(needs) ==
    [chainId \in {c \in DOMAIN needs : needs[c] > 0} |-> needs[chainId]]

\* SufficientWithdrawLoop without line 114: remainingToWithdraw is never reduced.
RECURSIVE WithdrawLoopNeverReduced(_, _, _, _, _)
WithdrawLoopNeverReduced(sortedHealthy, i, withdrawals, remainingToWithdraw, available) ==
    IF i > Len(sortedHealthy) \/ remainingToWithdraw = 0 THEN withdrawals
    ELSE LET chainId == sortedHealthy[i].chainId
             availableHere == MapGet(available, chainId)
             withdrawAmount == IF availableHere < remainingToWithdraw
                               THEN availableHere ELSE remainingToWithdraw
         IN  IF availableHere = 0
             THEN WithdrawLoopNeverReduced(sortedHealthy, i + 1, withdrawals,
                                           remainingToWithdraw, available)
             ELSE WithdrawLoopNeverReduced(sortedHealthy, i + 1,
                      MapSet(withdrawals, chainId, MapGet(withdrawals, chainId) + withdrawAmount),
                      remainingToWithdraw,
                      available)

\* Lines 105-115.
RECURSIVE SufficientWithdrawLoop(_, _, _, _, _)
SufficientWithdrawLoop(sortedHealthy, i, withdrawals, remainingToWithdraw, available) ==
    IF i > Len(sortedHealthy) \/ remainingToWithdraw = 0 THEN withdrawals
    ELSE LET chainId == sortedHealthy[i].chainId
             availableHere == MapGet(available, chainId)
             withdrawAmount == IF availableHere < remainingToWithdraw
                               THEN availableHere ELSE remainingToWithdraw
         IN  IF availableHere = 0
             THEN SufficientWithdrawLoop(sortedHealthy, i + 1, withdrawals,
                                         remainingToWithdraw, available)
             ELSE SufficientWithdrawLoop(sortedHealthy, i + 1,
                      MapSet(withdrawals, chainId, MapGet(withdrawals, chainId) + withdrawAmount),
                      remainingToWithdraw - withdrawAmount,
                      available)

\* The plan with its two maps returned under each other's name.
DistributionPlanSwapped(healthy, unhealthy, minHF, sortedUnhealthy, sortedHealthy) ==
    LET needs == needsByChain(unhealthy, minHF)
        available == availableByChain(healthy, minHF)
        needed == MapSum(needs)
        avail == MapSum(available)
    IN  IF avail < needed
        THEN [raised |-> FALSE,
              withdrawals |-> ProportionalSuppliesLoop(sortedUnhealthy, 1, avail, needed,
                                                       EmptyMap, needs),
              supplies |-> ShortfallWithdrawLoop(sortedHealthy, 1, EmptyMap,
                                                 avail, available)]
        ELSE [raised |-> FALSE,
              withdrawals |-> ExactSupplies(needs),
              supplies |-> SufficientWithdrawLoop(sortedHealthy, 1, EmptyMap,
                                                  needed, available)]

\* The plan for one outcome of the two sorts.
DistributionPlan(healthy, unhealthy, minHF, sortedUnhealthy, sortedHealthy) ==
    LET needs == needsByChain(unhealthy, minHF)
        available == availableByChain(healthy, minHF)
        needed == MapSum(needs)
        avail == MapSum(available)
    IN  IF avail < needed
        THEN [raised |-> FALSE,
              supplies |-> ProportionalSuppliesLoop(sortedUnhealthy, 1, avail, needed,
                                                    EmptyMap, needs),
              withdrawals |-> ShortfallWithdrawLoop(sortedHealthy, 1, EmptyMap,
                                                    avail, available)]
        ELSE [raised |-> FALSE,
              supplies |-> ExactSupplies(needs),
              withdrawals |-> SufficientWithdrawLoop(sortedHealthy, 1, EmptyMap,
                                                     needed, available)]

\* Every result the call can give: one per outcome of the sorts, or the exception.
optimizeRebalanceDistribution(healthy, unhealthy, minHF) ==
    IF EvaluatorRaises(healthy, unhealthy, minHF)
    THEN {[raised |-> TRUE, supplies |-> EmptyMap, withdrawals |-> EmptyMap]}
    ELSE {DistributionPlan(healthy, unhealthy, minHF, sortedUnhealthy, sortedHealthy) :
              sortedUnhealthy \in SortedWorstFirst(unhealthy),
              sortedHealthy \in SortedHighestFirst(healthy)}

(***************************************************************************)
(* Inputs.                                                                 *)
(***************************************************************************)
\* What getUserAccountData can report for one chain, as
\* <<healthFactor, totalCollateralBase, totalDebtBase, currentLiquidationThreshold>>.
PositionShapes ==
    << <<0, 1000, 0, 8000>>,        \* no debt: half of 1000 can be withdrawn
       <<0, 100, 0, 8000>>,         \* no debt: half of 100 can be withdrawn
       <<888888, 100, 90, 8000>>,   \* below 1.2: needs 35
       <<400000, 50, 100, 8000>>,   \* below 1.2: needs 100
       <<879120, 100, 91, 8000>>,   \* below 1.2: needs 36 (136.5 rounded down)
       <<8000000, 1000, 100, 8000>>,\* above 1.2 with debt: 850 can be withdrawn
       <<1758241, 200, 91, 8000>>,  \* above 1.2 with debt: 64 can be withdrawn
       <<500000, 100, 50, 0>>,      \* below 1.2, liquidation threshold 0
       <<2000000, 100, 50, 0>>,     \* above 1.2, liquidation threshold 0
       <<0, 0, 0, 0>>,              \* nothing supplied, nothing borrowed
       <<1200000, 150, 100, 8000>> >> \* exactly 1.2: nothing can be withdrawn

\* position.ts:65-78: one position per chain asked for, in the order of the
\* chain ids; a chain without a position is left out.  shapeOf[c] = 0: none.
fetchAavePositions(shapeOf) ==
    LET fetched == [c \in 1..NumChains |->
                       IF shapeOf[c] = 0 THEN NoPosition
                       ELSE LET shape == PositionShapes[shapeOf[c]]
                            IN  AavePosition(c, shape[1], shape[2], shape[3], shape[4])]
    IN  SelectSeq(fetched, LAMBDA position : position.chainId # 0)

\* The thresholds the components pass (AavePositions.tsx:403 and :34).
MinHealthFactors == {DefaultMinHealthFactor, EarlierHealthFactorThreshold}

SmallAmounts == 0..MaxSmallAmount

\* Arguments of a single evaluator call.
EvalPositions ==
    {AavePosition(1, healthFactor, collateral, debt, threshold) :
        healthFactor \in {0, 400000, DefaultMinHealthFactor, DefaultTargetHealthFactor},
        collateral \in SmallAmounts \cup {50, 100, 1000},
        debt \in SmallAmounts \cup {90, 91, 100},
        threshold \in {0, 8000, 8500}}

EvalRatios ==
    {0, 1, DefaultMinHealthFactor, EarlierHealthFactorThreshold, DefaultTargetHealthFactor}

(***************************************************************************)
(* crossChainRebalanceAavePositions (rebalance.ts)                         *)
(***************************************************************************)
\* Lines 63-160 have not run: nothing warned, paired, read or started.
NothingBuilt ==
    /\ warned = FALSE
    /\ voucherRequests = <<>>
    /\ network = EmptyMap
    /\ batches = EmptyMap

NoCall ==
    /\ callOp = "none"
    /\ callPosition = NoPosition
    /\ callRatio = 0
    /\ callOutcome = Return(0)

\* fetchWalletClient has not been called.
NoWalletCall ==
    /\ attempt = 0
    /\ accounts = <<>>
    /\ delays = 0
    /\ walletClient = "pending"

Init ==
    /\ pc = "start"
    /\ \E shapeOf \in [1..NumChains -> 0..Len(PositionShapes)] :
           positions = fetchAavePositions(shapeOf)
    /\ minHealthFactor \in MinHealthFactors
    /\ unhealthyPositions = <<>>
    /\ healthyPositions = <<>>
    /\ optimalWithdrawals = EmptyMap
    /\ optimalSupplies = EmptyMap
    /\ error = "none"
    /\ NothingBuilt
    /\ NoWalletCall
    /\ NoCall

\* Lines 43-48.
UnhealthyOf(ps, minHF) ==
    SelectSeq(ps, LAMBDA pos : isPositionUnhealthy(pos, minHF))

HealthyOf(ps, minHF) ==
    SelectSeq(ps, LAMBDA pos : ~isPositionUnhealthy(pos, minHF) /\ pos.totalCollateralBase > 0)

\* The two filters with the two throws in the other order.
FilterPositionsHealthyFirst ==
    /\ pc = "start"
    /\ unhealthyPositions' = UnhealthyOf(positions, minHealthFactor)
    /\ healthyPositions' = HealthyOf(positions, minHealthFactor)
    /\ IF Len(healthyPositions') = 0
       THEN pc' = "thrown" /\ error' = "No healthy positions to provide collateral"
       ELSE IF Len(unhealthyPositions') = 0
       THEN pc' = "thrown" /\ error' = "No unhealthy positions to rebalance"
       ELSE pc' = "filtered" /\ error' = "none"
    /\ UNCHANGED <<positions, minHealthFactor, optimalWithdrawals, optimalSupplies>>
    /\ UNCHANGED builderVars
    /\ UNCHANGED callVars
    /\ UNCHANGED walletVars

\* Lines 43-56: the two filters and the two throws.
FilterPositions ==
    /\ pc = "start"
    /\ unhealthyPositions' = UnhealthyOf(positions, minHealthFactor)
    /\ healthyPositions' = HealthyOf(positions, minHealthFactor)
    /\ IF Len(unhealthyPositions') = 0
       THEN pc' = "thrown" /\ error' = "No unhealthy positions to rebalance"
       ELSE IF Len(healthyPositions') = 0
       THEN pc' = "thrown" /\ error' = "No healthy positions to provide collateral"
       ELSE pc' = "filtered" /\ error' = "none"
    /\ UNCHANGED <<positions, minHealthFactor, optimalWithdrawals, optimalSupplies>>
    /\ UNCHANGED builderVars
    /\ UNCHANGED callVars
    /\ UNCHANGED walletVars

\* Lines 59-60: the call of optimizeRebalanceDistribution; its exception is
\* not caught here.
Optimize ==
    /\ pc = "filtered"
    /\ \E plan \in optimizeRebalanceDistribution(healthyPositions, unhealthyPositions,
                                                 minHealthFactor) :
           IF plan.raised
           THEN /\ pc' = "thrown"
                /\ error' = "RangeError"
                /\ UNCHANGED <<optimalWithdrawals, optimalSupplies>>
           ELSE /\ pc' = "optimized"
                /\ optimalWithdrawals' = plan.withdrawals
                /\ optimalSupplies' = plan.supplies
                /\ UNCHANGED error
    /\ UNCHANGED <<positions, minHealthFactor, unhealthyPositions, healthyPositions>>
    /\ UNCHANGED builderVars
    /\ UNCHANGED callVars
    /\ UNCHANGED walletVars

\* Lines 63-77: the totals of the plan's two maps and the warning.
CheckCollateral ==
    /\ pc = "optimized"
    /\ LET totalNeededOfPlan == MapSum(optimalSupplies)
           totalAvailableOfPlan == MapSum(optimalWithdrawals)
       IN  warned' = (totalAvailableOfPlan < totalNeededOfPlan)
    /\ pc' = "checked"
    /\ UNCHANGED <<positions, minHealthFactor, unhealthyPositions, healthyPositions,
                   optimalWithdrawals, optimalSupplies, error>>
    /\ UNCHANGED <<voucherRequests, network, batches>>
    /\ UNCHANGED callVars
    /\ UNCHANGED walletVars

VoucherRequest(sourceChainId, destinationChainId, amount) ==
    [sourceChainId |-> sourceChainId,
     destinationChainId |-> destinationChainId,
     amount |-> amount]

\* The inner loop of lines 114-133 taking the whole remaining need from
\* each source, whatever the source has left.
RECURSIVE PairSourcesUncapped(_, _, _, _, _, _)
PairSourcesUncapped(sortedHealthy, j, position, remainingNeed, remainingWithdrawals, requests) ==
    IF j > Len(sortedHealthy) \/ remainingNeed = 0
    THEN [remainingNeed |-> remainingNeed,
          remainingWithdrawals |-> remainingWithdrawals,
          requests |-> requests]
    ELSE LET sourceChainId == sortedHealthy[j].chainId
             available == MapGet(remainingWithdrawals, sourceChainId)
         IN  IF sourceChainId = position.chainId \/ available = 0
             THEN PairSourcesUncapped(sortedHealthy, j + 1, position, remainingNeed,
                                      remainingWithdrawals, requests)
             ELSE PairSourcesUncapped(sortedHealthy, j + 1, position, 0,
                      MapSet(remainingWithdrawals, sourceChainId, 0),
                      Append(requests,
                             VoucherRequest(sourceChainId, position.chainId, remainingNeed)))

\* The inner loop of lines 114-133 left after its first transfer: one
\* source for each destination.
RECURSIVE PairSourcesFirstOnly(_, _, _, _, _, _)
PairSourcesFirstOnly(sortedHealthy, j, position, remainingNeed, remainingWithdrawals, requests) ==
    IF j > Len(sortedHealthy) \/ remainingNeed = 0
    THEN [remainingNeed |-> remainingNeed,
          remainingWithdrawals |-> remainingWithdrawals,
          requests |-> requests]
    ELSE LET sourceChainId == sortedHealthy[j].chainId
             available == MapGet(remainingWithdrawals, sourceChainId)
             transferAmount == IF available < remainingNeed THEN available
                               ELSE remainingNeed
         IN  IF sourceChainId = position.chainId \/ available = 0
                    \/ ~(transferAmount > 0)
             THEN PairSourcesFirstOnly(sortedHealthy, j + 1, position, remainingNeed,
                                       remainingWithdrawals, requests)
             ELSE [remainingNeed |-> remainingNeed - transferAmount,
                   remainingWithdrawals |->
                       MapSet(remainingWithdrawals, sourceChainId,
                              available - transferAmount),
                   requests |->
                       Append(requests,
                              VoucherRequest(sourceChainId, position.chainId,
                                             transferAmount))]

\* Lines 113-133: the sources of one destination, in the order of
\* sortedHealthy.
RECURSIVE PairSourcesLoop(_, _, _, _, _, _)
PairSourcesLoop(sortedHealthy, j, position, remainingNeed, remainingWithdrawals, requests) ==
    IF j > Len(sortedHealthy) \/ remainingNeed = 0
    THEN [remainingNeed |-> remainingNeed,
          remainingWithdrawals |-> remainingWithdrawals,
          requests |-> requests]
    ELSE LET sourceChainId == sortedHealthy[j].chainId
             available == MapGet(remainingWithdrawals, sourceChainId)
             transferAmount == IF available < remainingNeed THEN available
                               ELSE remainingNeed
         IN  IF sourceChainId = position.chainId \/ available = 0
                    \/ ~(transferAmount > 0)
             THEN PairSourcesLoop(sortedHealthy, j + 1, position, remainingNeed,
                                  remainingWithdrawals, requests)
             ELSE PairSourcesLoop(sortedHealthy, j + 1, position,
                      remainingNeed - transferAmount,
                      MapSet(remainingWithdrawals, sourceChainId,
                             available - transferAmount),
                      Append(requests,
                             VoucherRequest(sourceChainId, position.chainId,
                                            transferAmount)))

\* Lines 105-111 without the sort: the healthy positions that still have
\* something to give, in the order of healthyPositions.
SourcesInGivenOrder(healthy, remainingWithdrawals) ==
    {SelectSeq(healthy, LAMBDA p : MapGet(remainingWithdrawals, p.chainId) > 0)}

\* Lines 105-111: the healthy positions that still have something to give,
\* highest health factor first.
SourcesWithRemaining(healthy, remainingWithdrawals) ==
    SortedHighestFirst(
        SelectSeq(healthy, LAMBDA p : MapGet(remainingWithdrawals, p.chainId) > 0))

\* Lines 101-137: the destinations in the order of sortedUnhealthy; the
\* lists of requests the loop can end with, one for each outcome of the
\* sorts of lines 106-111.
RECURSIVE PairLoop(_, _, _, _, _, _)
PairLoop(healthy, sortedUnhealthy, i, remainingSupplies, remainingWithdrawals, requests) ==
    IF i > Len(sortedUnhealthy) THEN {requests}
    ELSE LET position == sortedUnhealthy[i]
             needed == MapGet(remainingSupplies, position.chainId)
         IN  IF needed = 0
             THEN PairLoop(healthy, sortedUnhealthy, i + 1, remainingSupplies,
                           remainingWithdrawals, requests)
             ELSE UNION {
                      LET paired == PairSourcesLoop(sortedHealthy, 1, position, needed,
                                                    remainingWithdrawals, requests)
                      IN  PairLoop(healthy, sortedUnhealthy, i + 1,
                                   MapSet(remainingSupplies, position.chainId,
                                          paired.remainingNeed),
                                   paired.remainingWithdrawals, paired.requests)
                      : sortedHealthy \in SourcesWithRemaining(healthy, remainingWithdrawals)}

\* Lines 83-140: voucherRequests, for each outcome of the sorts.
PairedVoucherRequests(healthy, unhealthy, supplies, withdrawals) ==
    UNION {PairLoop(healthy, sortedUnhealthy, 1, supplies, withdrawals, <<>>)
           : sortedUnhealthy \in SortedWorstFirst(unhealthy)}

\* Lines 79-140: the greedy pairing of withdrawals with supplies.
PairTransfers ==
    /\ pc = "checked"
    /\ voucherRequests' \in PairedVoucherRequests(healthyPositions, unhealthyPositions,
                                                  optimalSupplies, optimalWithdrawals)
    /\ pc' = "paired"
    /\ UNCHANGED <<positions, minHealthFactor, unhealthyPositions, healthyPositions,
                   optimalWithdrawals, optimalSupplies, error>>
    /\ UNCHANGED <<warned, network, batches>>
    /\ UNCHANGED callVars
    /\ UNCHANGED walletVars

(***************************************************************************)
(* What the builder reads from a chain (rebalance.ts:179-213).  Prices are *)
(* the oracle's 8-decimal prices in units of 10^6 (one dollar is 100) and  *)
(* 10n ** BigInt(tokenDecimals) is carried in the same units, which leaves *)
(* the quotient of convertUSDBaseToTokenAmount what it is.                 *)
(***************************************************************************)
ChainAnswer(poolAddress, tokenAddress, client, tokenDecimals, price, aTokenBalance) ==
    [poolAddress |-> poolAddress,       \* getAavePoolAddress(chainId) is defined
     tokenAddress |-> tokenAddress,     \* collateralToken.addressOn(chainId) is defined
     client |-> client,                 \* getClient(wagmiConfig, {chainId}) is defined
     tokenDecimals |-> tokenDecimals,   \* decimals() of the collateral token
     price |-> price,                   \* getTokenPrice
     aTokenBalance |-> aTokenBalance]   \* getATokenBalance

ChainAnswers ==
    {ChainAnswer(TRUE, TRUE, TRUE, 8, 100, 100000), \* 8 decimals at one dollar
     ChainAnswer(TRUE, TRUE, TRUE, 6, 100, 100000), \* 6 decimals at one dollar
     ChainAnswer(TRUE, TRUE, TRUE, 8, 100, 20),     \* an aToken balance of 20 only
     ChainAnswer(TRUE, TRUE, FALSE, 8, 100, 100000),\* no client
     ChainAnswer(TRUE, FALSE, TRUE, 8, 100, 100000)}\* no token address

\* 10n ** BigInt(tokenDecimals), in units of 10^6.
TokenUnit(tokenDecimals) == 10 ^ (tokenDecimals - 6)

\* utils.ts: convertUSDBaseToTokenAmount, with the price getTokenPrice gave.
convertUSDBaseToTokenAmount(usdBaseAmount, answer) ==
    IF answer.price = 0
    THEN IF answer.tokenDecimals = 6 THEN usdBaseAmount \div 100
         ELSE IF answer.tokenDecimals = 18 THEN usdBaseAmount * (10 ^ 10)
         ELSE IF answer.tokenDecimals > 8
         THEN usdBaseAmount * (10 ^ (answer.tokenDecimals - 8))
         ELSE usdBaseAmount \div (10 ^ (8 - answer.tokenDecimals))
    ELSE (usdBaseAmount * TokenUnit(answer.tokenDecimals)) \div answer.price

(***************************************************************************)
(* rebalance.ts:142-171: the groupings of voucherRequests and the batches. *)
(***************************************************************************)
\* The keys of withdrawalsByChain and vouchersBySourceChain in the order a
\* Map iterates them: the order they were first set in.
RECURSIVE SourceKeys(_, _, _)
SourceKeys(requests, i, keys) ==
    IF i > Len(requests) THEN keys
    ELSE IF \E k \in 1..Len(keys) : keys[k] = requests[i].sourceChainId
    THEN SourceKeys(requests, i + 1, keys)
    ELSE SourceKeys(requests, i + 1, Append(keys, requests[i].sourceChainId))

RECURSIVE WithdrawalsLoop(_, _, _)
WithdrawalsLoop(requests, i, byChain) ==
    IF i > Len(requests) THEN byChain
    ELSE WithdrawalsLoop(requests, i + 1,
             MapSet(byChain, requests[i].sourceChainId,
                    MapGet(byChain, requests[i].sourceChainId) + requests[i].amount))

withdrawalsByChain(requests) == WithdrawalsLoop(requests, 1, EmptyMap)

\* vouchersBySourceChain.get(sourceChainId) || []
vouchersBySourceChain(requests, sourceChainId) ==
    LET ofSource == SelectSeq(requests, LAMBDA r : r.sourceChainId = sourceChainId)
    IN  [k \in 1..Len(ofSource) |->
            [destChainId |-> ofSource[k].destinationChainId,
             amount |-> ofSource[k].amount]]

\* `voucher_${from}_to_${to}`: two refs are the same string exactly when
\* they name the same two chains.
VoucherRef(from, to) == <<from, to>>

\* A batch just started: builder.startBatch(BigInt(chainId)).
NewBatch ==
    [withdrawn |-> <<>>,    \* amounts of the withdraw actions added
     used |-> <<>>,         \* refs given to useVoucher
     supplied |-> <<>>,     \* amounts of the approve and supply actions added
     requests |-> <<>>,     \* what was given to addVoucherRequest
     ended |-> 0]           \* calls of endBatch

\* Lines 163-171.
getOrCreateBatch(batchesByChain, chainId) ==
    IF chainId \in DOMAIN batchesByChain THEN batchesByChain
    ELSE MapSet(batchesByChain, chainId, NewBatch)

\* list.find(p => p.chainId === chainId) finds a position.
HasPosition(list, chainId) == \E i \in 1..Len(list) : list[i].chainId = chainId

\* list.find(p => p.chainId === chainId), when it finds one.
FindPosition(list, chainId) ==
    list[CHOOSE i \in 1..Len(list) :
             /\ list[i].chainId = chainId
             /\ \A k \in 1..(i - 1) : list[k].chainId # chainId]

\* The comparator of sortedVouchers with its last test turned round: the
\* destination with the highest health factor first.
CompareVouchersHighestFirst(unhealthy, a, b) ==
    IF ~HasPosition(unhealthy, a.destChainId) THEN 1
    ELSE IF ~HasPosition(unhealthy, b.destChainId) THEN -1
    ELSE IF FindPosition(unhealthy, a.destChainId).healthFactor = 0 THEN -1
    ELSE IF FindPosition(unhealthy, b.destChainId).healthFactor = 0 THEN 1
    ELSE IF FindPosition(unhealthy, a.destChainId).healthFactor
                > FindPosition(unhealthy, b.destChainId).healthFactor
    THEN -1 ELSE 1

\* Lines 246-254 and 278-286: the comparator of sortedVouchers.
CompareVouchers(unhealthy, a, b) ==
    IF ~HasPosition(unhealthy, a.destChainId) THEN 1
    ELSE IF ~HasPosition(unhealthy, b.destChainId) THEN -1
    ELSE IF FindPosition(unhealthy, a.destChainId).healthFactor = 0 THEN -1
    ELSE IF FindPosition(unhealthy, b.destChainId).healthFactor = 0 THEN 1
    ELSE IF FindPosition(unhealthy, a.destChainId).healthFactor
                < FindPosition(unhealthy, b.destChainId).healthFactor
    THEN -1 ELSE 1

\* [...vouchers].sort(...) of lines 245-254, as the destination chain ids
\* of line 287: every order the sort can give.
ChainOrders(unhealthy, vouchers) ==
    {[k \in 1..Len(sorted) |-> sorted[k].destChainId] :
        sorted \in {s \in Reorderings(vouchers) :
                       \A i, j \in 1..Len(s) :
                           i < j => ~(CompareVouchers(unhealthy, s[j], s[i]) < 0
                                          /\ CompareVouchers(unhealthy, s[i], s[j]) > 0)}}

(***************************************************************************)
(* rebalance.ts:173-271: the batches of the source chains.  What is built  *)
(* is carried as [batches, refs, processed]: batchesByChain,               *)
(* voucherRefsByDestination and processedDestinations.                     *)
(* (voucherAmountsByDestination is written at line 267 and never read.)    *)
(***************************************************************************)
NothingBuiltYet == [batches |-> EmptyMap, refs |-> EmptyMap, processed |-> {}]

\* voucherRefsByDestination.get(chainId) || []
RefsOf(refs, chainId) == IF chainId \in DOMAIN refs THEN refs[chainId] ELSE <<>>

\* Lines 216-218.
actualWithdrawAmount(aTokenBalance, withdrawAmountTokens) ==
    IF aTokenBalance > 0 /\ aTokenBalance < withdrawAmountTokens
    THEN aTokenBalance ELSE withdrawAmountTokens

\* The test of line 220 left out: a withdrawal of 0 is built like any other.
NeverWithdrawsNothing(amount) == FALSE

\* Line 220.
WithdrawsNothing(amount) == amount = 0

\* Lines 176-270, one pass of the loop: the batch of one source chain, whose
\* sorted vouchers go to the chains of chainOrder.
SourceBatch(net, chainOrder, sourceChainId, built) ==
    IF ~HasPosition(healthyPositions, sourceChainId) THEN built
    ELSE IF ~net[sourceChainId].poolAddress \/ ~net[sourceChainId].tokenAddress THEN built
    ELSE LET started == getOrCreateBatch(built.batches, sourceChainId)
             withdrawAmountUSD == MapGet(withdrawalsByChain(voucherRequests), sourceChainId)
             withdrawAmountTokens ==
                 convertUSDBaseToTokenAmount(withdrawAmountUSD, net[sourceChainId])
             actual == actualWithdrawAmount(net[sourceChainId].aTokenBalance,
                                            withdrawAmountTokens)
             withdrawing == [started[sourceChainId] EXCEPT !.withdrawn = Append(@, actual)]
         IN  IF ~net[sourceChainId].client THEN [built EXCEPT !.batches = started]
             ELSE IF WithdrawsNothing(actual) THEN [built EXCEPT !.batches = started]
             ELSE IF Len(chainOrder) = 0
             THEN [built EXCEPT !.batches =
                      MapSet(started, sourceChainId, [withdrawing EXCEPT !.ended = @ + 1])]
             ELSE LET firstDestination == chainOrder[1]
                      voucherRef == VoucherRef(sourceChainId, firstDestination)
                  IN  [built EXCEPT
                          !.batches =
                              MapSet(started, sourceChainId,
                                  [withdrawing EXCEPT
                                      !.requests =
                                          Append(@, [ref |-> voucherRef,
                                                     destinationChainId |-> firstDestination,
                                                     amount |-> actual]),
                                      !.ended = @ + 1]),
                          !.refs = MapSet(built.refs, firstDestination, <<voucherRef>>)]

\* Lines 175-271: the loop over withdrawalsByChain.entries().
RECURSIVE SourceBatchesLoop(_, _, _, _, _)
SourceBatchesLoop(net, orderOf, keys, k, built) ==
    IF k > Len(keys) THEN built
    ELSE SourceBatchesLoop(net, orderOf, keys, k + 1,
                           SourceBatch(net, orderOf[keys[k]], keys[k], built))

(***************************************************************************)
(* rebalance.ts:289-425: the batches of the destination chains.            *)
(***************************************************************************)
\* The test of line 404 without its first half: the remainder is forwarded
\* to the next destination even when it is 0.
ForwardsWheneverNotLast(remainder, i, chainOrder) == i < Len(chainOrder)

\* Line 404 (i counts from 1 here).
ForwardsRemainder(remainder, i, chainOrder) == remainder > 0 /\ i < Len(chainOrder)

\* Lines 326-424: the destinations of one source, from the i-th on.
RECURSIVE DestinationLoop(_, _, _, _, _)
DestinationLoop(net, chainOrder, i, remainingAmount, built) ==
    IF i > Len(chainOrder) THEN built
    ELSE LET destChainId == chainOrder[i]
             started == getOrCreateBatch(built.batches, destChainId)
             neededUSD == MapGet(optimalSupplies, destChainId)
             neededTokens == convertUSDBaseToTokenAmount(neededUSD, net[destChainId])
             redeemed == IF i = 1 THEN RefsOf(built.refs, destChainId)
                         ELSE <<VoucherRef(chainOrder[i - 1], destChainId)>>
             supplyAmount == IF remainingAmount < neededTokens THEN remainingAmount
                             ELSE neededTokens
             remainder == remainingAmount - supplyAmount
             forwards == ForwardsRemainder(remainder, i, chainOrder)
             nextVoucherRef == VoucherRef(destChainId, chainOrder[i + 1])
             batch == [started[destChainId] EXCEPT
                          !.used = @ \o redeemed,
                          !.supplied = IF supplyAmount > 0 THEN Append(@, supplyAmount) ELSE @,
                          !.requests =
                              IF forwards
                              THEN Append(@, [ref |-> nextVoucherRef,
                                              destinationChainId |-> chainOrder[i + 1],
                                              amount |-> remainder])
                              ELSE @,
                          !.ended = @ + 1]
         IN  IF destChainId \in built.processed
                    \/ ~HasPosition(unhealthyPositions, destChainId)
                    \/ ~net[destChainId].poolAddress \/ ~net[destChainId].tokenAddress
             THEN DestinationLoop(net, chainOrder, i + 1, remainingAmount, built)
             ELSE IF ~net[destChainId].client
             THEN DestinationLoop(net, chainOrder, i + 1, remainingAmount,
                                  [built EXCEPT !.batches = started])
             ELSE DestinationLoop(net, chainOrder, i + 1, remainder,
                      [batches |-> MapSet(started, destChainId, batch),
                       refs |-> IF forwards
                                THEN MapSet(built.refs, chainOrder[i + 1],
                                            Append(RefsOf(built.refs, chainOrder[i + 1]),
                                                   nextVoucherRef))
                                ELSE built.refs,
                       processed |-> built.processed \cup {destChainId}])

\* Lines 296-325 and the loop after them: the chain of one source.
DestinationsOfSource(net, chainOrder, sourceChainId, built) ==
    IF Len(chainOrder) = 0 THEN built
    ELSE IF ~HasPosition(healthyPositions, sourceChainId) THEN built
    ELSE IF ~net[sourceChainId].poolAddress \/ ~net[sourceChainId].tokenAddress THEN built
    ELSE IF ~net[sourceChainId].client THEN built
    ELSE LET sourceWithdrawAmountUSD ==
                 MapGet(withdrawalsByChain(voucherRequests), sourceChainId)
             sourceWithdrawAmountTokens ==
                 convertUSDBaseToTokenAmount(sourceWithdrawAmountUSD, net[sourceChainId])
         IN  DestinationLoop(net, chainOrder, 1, sourceWithdrawAmountTokens, built)

\* Lines 295-425: the loop over chainOrderBySource.entries().
RECURSIVE DestinationBatchesLoop(_, _, _, _, _)
DestinationBatchesLoop(net, orderOf, keys, k, built) ==
    IF k > Len(keys) THEN built
    ELSE DestinationBatchesLoop(net, orderOf, keys, k + 1,
                                DestinationsOfSource(net, orderOf[keys[k]], keys[k], built))

\* The chains the builder reads from: those of the voucher requests.
InvolvedChains ==
    {voucherRequests[i].sourceChainId : i \in 1..Len(voucherRequests)}
        \cup {voucherRequests[i].destinationChainId : i \in 1..Len(voucherRequests)}

\* chainOrderBySource for each outcome of the sorts of lines 245 and 278
\* (the same array under the same comparator sorts the same both times).
ChainOrdersBySource ==
    LET sources == {voucherRequests[i].sourceChainId : i \in 1..Len(voucherRequests)}
        ordersOf(c) == ChainOrders(unhealthyPositions,
                                   vouchersBySourceChain(voucherRequests, c))
    IN  {orderOf \in [sources -> UNION {ordersOf(c) : c \in sources}] :
            \A c \in sources : orderOf[c] \in ordersOf(c)}

\* Lines 142-429: the groupings, the source batches, the chain orders, the
\* destination batches, and the plan handed to buildAndSign and execute.
BuildBatches ==
    /\ pc = "paired"
    /\ \E net \in [InvolvedChains -> ChainAnswers], orderOf \in ChainOrdersBySource :
           LET keys == SourceKeys(voucherRequests, 1, <<>>)
               sourcesBuilt == SourceBatchesLoop(net, orderOf, keys, 1, NothingBuiltYet)
               allBuilt == DestinationBatchesLoop(net, orderOf, keys, 1, sourcesBuilt)
           IN  /\ network' = net
               /\ batches' = allBuilt.batches
    /\ pc' = "built"
    /\ UNCHANGED <<positions, minHealthFactor, unhealthyPositions, healthyPositions,
                   optimalWithdrawals, optimalSupplies, error>>
    /\ UNCHANGED <<warned, voucherRequests>>
    /\ UNCHANGED callVars
    /\ UNCHANGED walletVars

Next == FilterPositions \/ Optimize \/ CheckCollateral \/ PairTransfers

Spec == Init /\ [][Next]_vars

(***************************************************************************)
(* The same call followed through the building of its batches, on          *)
(* positions of the shapes without a zero liquidation threshold.           *)
(***************************************************************************)
\* Indexes into PositionShapes: can give 500, can give 50, needs 35, needs 100.
BuildShapes == {1, 2, 3, 4}

InitBuild ==
    /\ pc = "start"
    /\ \E shapeOf \in [1..NumChains -> BuildShapes \cup {0}] :
           positions = fetchAavePositions(shapeOf)
    /\ minHealthFactor = DefaultMinHealthFactor
    /\ unhealthyPositions = <<>>
    /\ healthyPositions = <<>>
    /\ optimalWithdrawals = EmptyMap
    /\ optimalSupplies = EmptyMap
    /\ error = "none"
    /\ NothingBuilt
    /\ NoWalletCall
    /\ NoCall

NextBuild ==
    \/ FilterPositions
    \/ Optimize
    \/ CheckCollateral
    \/ PairTransfers
    \/ BuildBatches

SpecBuild == InitBuild /\ [][NextBuild]_vars

(***************************************************************************)
(* The evaluator's functions, each called once on arguments of its own.    *)
(***************************************************************************)
InitEval ==
    /\ pc = "idle"
    /\ positions = <<>>
    /\ minHealthFactor = DefaultMinHealthFactor
    /\ unhealthyPositions = <<>>
    /\ healthyPositions = <<>>
    /\ optimalWithdrawals = EmptyMap
    /\ optimalSupplies = EmptyMap
    /\ error = "none"
    /\ NothingBuilt
    /\ NoWalletCall
    /\ callOp = "none"
    /\ callPosition \in EvalPositions
    /\ callRatio \in EvalRatios
    /\ callOutcome = Return(0)

Call(op, outcome) ==
    /\ callOp = "none"
    /\ callOp' = op
    /\ callOutcome' = outcome
    /\ UNCHANGED <<callPosition, callRatio>>
    /\ UNCHANGED rebalanceVars
    /\ UNCHANGED walletVars

CallIsPositionUnhealthy ==
    Call("isPositionUnhealthy", Return(isPositionUnhealthy(callPosition, callRatio)))

CallCalculateRepayAmount ==
    Call("calculateRepayAmount", calculateRepayAmount(callPosition, callRatio))

\* index.ts:227: the earlier rebalanceAavePositions calls the function of
\* index.ts:171-189.
CallCalculateRepayAmountEarlier ==
    Call("calculateRepayAmountEarlier", calculateRepayAmountEarlier(callPosition, callRatio))

CallCalculateCollateralNeeded ==
    Call("calculateCollateralNeeded", calculateCollateralNeeded(callPosition, callRatio))

CallCalculateMaxWithdrawable ==
    Call("calculateMaxWithdrawable", calculateMaxWithdrawable(callPosition, callRatio))

NextEval ==
    \/ CallIsPositionUnhealthy
    \/ CallCalculateRepayAmount
    \/ CallCalculateRepayAmountEarlier
    \/ CallCalculateCollateralNeeded
    \/ CallCalculateMaxWithdrawable

SpecEval == InitEval /\ [][NextEval]_vars

(***************************************************************************)
(* optimizeRebalanceDistribution called on its own, on the two lists the   *)
(* filters of its callers make, either of which may be empty.              *)
(***************************************************************************)
InitOptimizer ==
    /\ pc = "direct"
    /\ \E shapeOf \in [1..NumChains -> 0..Len(PositionShapes)] :
           positions = fetchAavePositions(shapeOf)
    /\ minHealthFactor \in MinHealthFactors
    /\ unhealthyPositions = UnhealthyOf(positions, minHealthFactor)
    /\ healthyPositions = HealthyOf(positions, minHealthFactor)
    /\ optimalWithdrawals = EmptyMap
    /\ optimalSupplies = EmptyMap
    /\ error = "none"
    /\ NothingBuilt
    /\ NoWalletCall
    /\ NoCall

CallOptimizeRebalanceDistribution ==
    /\ pc = "direct"
    /\ \E plan \in optimizeRebalanceDistribution(healthyPositions, unhealthyPositions,
                                                 minHealthFactor) :
           IF plan.raised
           THEN /\ pc' = "raised"
                /\ error' = "RangeError"
                /\ UNCHANGED <<optimalWithdrawals, optimalSupplies>>
           ELSE /\ pc' = "returned"
                /\ optimalWithdrawals' = plan.withdrawals
                /\ optimalSupplies' = plan.supplies
                /\ UNCHANGED error
    /\ UNCHANGED <<positions, minHealthFactor, unhealthyPositions, healthyPositions>>
    /\ UNCHANGED builderVars
    /\ UNCHANGED callVars
    /\ UNCHANGED walletVars

NextOptimizer == CallOptimizeRebalanceDistribution

SpecOptimizer == InitOptimizer /\ [][NextOptimizer]_vars

(***************************************************************************)
(* optimizeRebalanceDistribution called on lists in which positions may    *)
(* share a chainId: the function takes any two arrays of positions.        *)
(***************************************************************************)
SharedChainIds == 1..2

SharedShapes == {2, 3, 4, 7}

SharedPositions ==
    {AavePosition(c, PositionShapes[k][1], PositionShapes[k][2],
                  PositionShapes[k][3], PositionShapes[k][4]) :
        c \in SharedChainIds, k \in SharedShapes}

InitOptimizerShared ==
    /\ pc = "direct"
    /\ positions \in UNION {[1..n -> SharedPositions] : n \in 0..NumChains}
    /\ minHealthFactor \in MinHealthFactors
    /\ unhealthyPositions = UnhealthyOf(positions, minHealthFactor)
    /\ healthyPositions = HealthyOf(positions, minHealthFactor)
    /\ optimalWithdrawals = EmptyMap
    /\ optimalSupplies = EmptyMap
    /\ error = "none"
    /\ NothingBuilt
    /\ NoWalletCall
    /\ NoCall

SpecOptimizerShared == InitOptimizerShared /\ [][NextOptimizer]_vars

(***************************************************************************)
(* eil.ts:23-50: fetchWalletClient.  Each action is what runs between two  *)
(* awaits.  What getAccount gives at a check is the wallet's doing: whether*)
(* it is connected and whether it has a connector, with or without a       *)
(* getChainId function.                                                    *)
(***************************************************************************)
\* Line 27.
MaxAttempts == 5

Account(isConnected, connector) == [isConnected |-> isConnected, connector |-> connector]

Accounts ==
    {Account(isConnected, connector) :
        isConnected \in BOOLEAN,
        connector \in {"undefined", "withoutGetChainId", "withGetChainId"}}

\* Line 31.
ConnectorReady(account) == account.isConnected /\ account.connector = "withGetChainId"

\* The test of line 43 never true.
NeverLastAttempt(n) == FALSE

\* Line 43.
LastAttempt(n) == n = MaxAttempts

InitWallet ==
    /\ pc = "fetchWalletClient"
    /\ positions = <<>>
    /\ minHealthFactor = DefaultMinHealthFactor
    /\ unhealthyPositions = <<>>
    /\ healthyPositions = <<>>
    /\ optimalWithdrawals = EmptyMap
    /\ optimalSupplies = EmptyMap
    /\ error = "none"
    /\ NothingBuilt
    /\ NoWalletCall
    /\ NoCall

\* Lines 25-29: reconnect is awaited and the loop is entered.
Reconnect ==
    /\ pc = "fetchWalletClient"
    /\ pc' = "check"
    /\ attempt' = 1
    /\ UNCHANGED <<accounts, delays, walletClient>>
    /\ UNCHANGED notWalletVars

\* Lines 30-46: one check of the connector.
CheckConnector ==
    /\ pc = "check"
    /\ \E account \in Accounts :
           /\ accounts' = Append(accounts, account)
           /\ IF ConnectorReady(account)
              THEN /\ pc' = "getWalletClient"
                   /\ UNCHANGED walletClient
              ELSE IF LastAttempt(attempt)
              THEN /\ pc' = "raised"
                   /\ walletClient' = "Connector not ready after maximum attempts"
              ELSE /\ pc' = "wait"
                   /\ UNCHANGED walletClient
    /\ UNCHANGED <<attempt, delays>>
    /\ UNCHANGED notWalletVars

\* Lines 32-41: getWalletClient gives the client, which is returned, or
\* fails, and its error is thrown on.
GetWalletClient ==
    /\ pc = "getWalletClient"
    /\ \/ /\ pc' = "returned"
          /\ walletClient' = "WalletClient"
       \/ /\ pc' = "raised"
          /\ walletClient' = "getWalletClient error"
    /\ UNCHANGED <<attempt, accounts, delays>>
    /\ UNCHANGED notWalletVars

\* Lines 47, 29 and 49: the timer fires, attempt++, and the loop goes on or
\* is left for return undefined.
Delay ==
    /\ pc = "wait"
    /\ delays' = delays + 1
    /\ attempt' = attempt + 1
    /\ IF attempt + 1 <= MaxAttempts
       THEN /\ pc' = "check"
            /\ UNCHANGED walletClient
       ELSE /\ pc' = "returned"
            /\ walletClient' = "undefined"
    /\ UNCHANGED accounts
    /\ UNCHANGED notWalletVars

NextWallet == Reconnect \/ CheckConnector \/ GetWalletClient \/ Delay

\* An await that settles is resumed and a timer that is set fires: a step
\* that can be taken is taken.
SpecWallet == InitWallet /\ [][NextWallet]_vars /\ WF_vars(NextWallet)

(***************************************************************************)
(* Quantities the claims speak of.                                         *)
(***************************************************************************)
RECURSIVE SumSeq(_, _)
SumSeq(seq, i) == IF i > Len(seq) THEN 0 ELSE seq[i] + SumSeq(seq, i + 1)

\* What each unhealthy position needs, position by position.
NeededOf(i) == calculateCollateralNeeded(unhealthyPositions[i], minHealthFactor).value

\* What each healthy position can give, position by position.
AvailableOf(i) == calculateMaxWithdrawable(healthyPositions[i], minHealthFactor).value

SumNeeded == SumSeq([i \in 1..Len(unhealthyPositions) |-> NeededOf(i)], 1)

SumAvailable == SumSeq([i \in 1..Len(healthyPositions) |-> AvailableOf(i)], 1)

Planned == pc = "optimized"

SufficientCase == Planned /\ SumAvailable >= SumNeeded

ShortfallCase == Planned /\ SumAvailable < SumNeeded

\* C1: in the sufficient case the supplies add up to the sum of needsByChain
\* and the withdrawals add up to totalNeeded, exactly.
C1_ConservationSufficient ==
    SufficientCase =>
        /\ MapSum(optimalSupplies) = MapSum(needsByChain(unhealthyPositions, minHealthFactor))
        /\ MapSum(optimalSupplies) = SumNeeded
        /\ MapSum(optimalWithdrawals) = SumNeeded

\* C1's case: a sufficient plan that has to draw on two healthy chains.
C1_Witness ==
    /\ SufficientCase
    /\ SumNeeded > 0
    /\ Cardinality(DOMAIN optimalWithdrawals) >= 2
    /\ \A c \in DOMAIN optimalWithdrawals : optimalWithdrawals[c] > 0

\* C2: in the shortfall case neither the supplies nor the withdrawals add up
\* to more than totalAvailable, and the supplies fall short of totalAvailable
\* by at most (number of unhealthy chains - 1).
C2_ConservationShortfall ==
    ShortfallCase =>
        /\ MapSum(optimalSupplies) <= SumAvailable
        /\ MapSum(optimalWithdrawals) <= SumAvailable
        /\ SumAvailable - MapSum(optimalSupplies) <= Len(unhealthyPositions) - 1

\* C2's case: a shortfall in which the floor divisions lose a unit.
C2_Witness ==
    /\ ShortfallCase
    /\ Len(unhealthyPositions) >= 2
    /\ SumAvailable > 0
    /\ SumAvailable - MapSum(optimalSupplies) = Len(unhealthyPositions) - 1

\* The scenario of the spec: two unhealthy chains needing 100 each, one
\* healthy chain with 50 available.
TwoNeeding100OneWith50 ==
    /\ Len(unhealthyPositions) = 2
    /\ NeededOf(1) = 100
    /\ NeededOf(2) = 100
    /\ Len(healthyPositions) = 1
    /\ AvailableOf(1) = 50

\* C3: in the shortfall case the supplies entry of each unhealthy chain is
\* floor(needed_i * totalAvailable / totalNeeded), which is at most needed_i;
\* in the scenario of the spec the entries are 25 and 25.
C3_ProportionalAllocation ==
    ShortfallCase =>
        /\ \A i \in 1..Len(unhealthyPositions) :
               LET entry == MapGet(optimalSupplies, unhealthyPositions[i].chainId)
               IN  /\ entry = (NeededOf(i) * SumAvailable) \div SumNeeded
                   /\ entry <= NeededOf(i)
        /\ TwoNeeding100OneWith50 =>
               /\ \A i \in 1..2 : MapGet(optimalSupplies, unhealthyPositions[i].chainId) = 25
               /\ MapSum(optimalSupplies) = 50

\* C3's case: the scenario of the spec, planned.
C3_Witness ==
    /\ ShortfallCase
    /\ TwoNeeding100OneWith50
    /\ MapSum(optimalSupplies) = 50

\* The position's health factor field is the one its collateral, threshold
\* and debt give, and is 0 exactly when there is no debt.
WellFormed(position) ==
    IF position.totalDebtBase = 0 THEN position.healthFactor = 0
    ELSE /\ position.healthFactor # 0
         /\ position.healthFactor =
                (position.totalCollateralBase * liquidationThresholdScaled(position))
                    \div position.totalDebtBase

\* The collateral of a position once the plan is applied.
CollateralAfterPlan(position) ==
    IF \E i \in 1..Len(unhealthyPositions) : unhealthyPositions[i] = position
    THEN position.totalCollateralBase + MapGet(optimalSupplies, position.chainId)
    ELSE IF \E i \in 1..Len(healthyPositions) : healthyPositions[i] = position
    THEN position.totalCollateralBase - MapGet(optimalWithdrawals, position.chainId)
    ELSE position.totalCollateralBase

\* C4: after the plan of the sufficient case is applied every position with
\* debt has collateral * liquidationThreshold * 10^14 >= minHealthFactor * debt.
C4_HealthRestored ==
    (SufficientCase /\ \A i \in 1..Len(positions) : WellFormed(positions[i])) =>
        \A i \in 1..Len(positions) :
            positions[i].totalDebtBase > 0 =>
                CollateralAfterPlan(positions[i]) * liquidationThresholdScaled(positions[i])
                    >= minHealthFactor * positions[i].totalDebtBase

(***************************************************************************)
(* Claims about single calls of the evaluator (SpecEval).                  *)
(***************************************************************************)
Called(op) == callOp = op

NoDebt(position) == position.totalDebtBase = 0 \/ position.healthFactor = 0

Max0(x) == IF x > 0 THEN x ELSE 0

\* C5: calculateRepayAmount, calculateCollateralNeeded and
\* calculateMaxWithdrawable return a value >= 0 and do not raise, whatever
\* the position (liquidation threshold 0 and collateral 0 included) and the
\* ratio; stated here for the positive ratios.
C5_NonNegativeNeverRaises ==
    (/\ Called("calculateRepayAmount") \/ Called("calculateCollateralNeeded")
            \/ Called("calculateMaxWithdrawable")
     /\ callRatio > 0) =>
        /\ ~callOutcome.raised
        /\ callOutcome.value >= 0

\* C6: calculateMaxWithdrawable on a position with debt > 0 (so with a health
\* factor other than the 0 of no debt) and liquidation threshold 0 returns 0
\* and does not raise.
C6_ZeroThresholdReturnsZero ==
    (/\ Called("calculateMaxWithdrawable")
     /\ callPosition.totalDebtBase > 0
     /\ callPosition.healthFactor # 0
     /\ callPosition.currentLiquidationThreshold = 0) =>
        callOutcome = Return(0)

\* C7: no evaluator call executes a division by zero: a zero target ratio in
\* calculateRepayAmount and a zero liquidation threshold in
\* calculateCollateralNeeded are found before the divide and reported as
\* DivisionByZero.
C7_NoDivisionByZeroExecuted ==
    /\ callOutcome.exception # "RangeError"
    /\ (/\ Called("calculateRepayAmount")
        /\ ~NoDebt(callPosition)
        /\ callRatio = 0) => callOutcome.exception = "DivisionByZero"
    /\ (/\ Called("calculateCollateralNeeded")
        /\ ~NoDebt(callPosition)
        /\ callPosition.currentLiquidationThreshold = 0) =>
            callOutcome.exception = "DivisionByZero"

\* C8: isPositionUnhealthy is false for health factor 0 whatever the
\* threshold, and healthFactor < threshold otherwise.
C8_UnhealthyClassification ==
    Called("isPositionUnhealthy") =>
        /\ ~callOutcome.raised
        /\ callPosition.healthFactor = 0 => callOutcome.value = FALSE
        /\ callPosition.healthFactor # 0 =>
               callOutcome.value = (callPosition.healthFactor < callRatio)

\* C8's case: health factor 0 under a positive threshold, found healthy.
C8_Witness ==
    /\ Called("isPositionUnhealthy")
    /\ callPosition.healthFactor = 0
    /\ callPosition.totalDebtBase > 0
    /\ callRatio > 0
    /\ callOutcome.value = FALSE

\* C9: calculateMaxWithdrawable returns floor(collateral / 2) for a position
\* without debt and max(0, collateral - floor(minRatio * debt /
\* (liquidationThreshold * 10^14))) otherwise, never more than the collateral.
\* (With debt and liquidation threshold 0 that quotient does not exist and
\* the call returns nothing: C6.)
C9_MaxWithdrawableValue ==
    Called("calculateMaxWithdrawable") =>
        /\ NoDebt(callPosition) =>
               callOutcome = Return(callPosition.totalCollateralBase \div 2)
        /\ (~NoDebt(callPosition) /\ callPosition.currentLiquidationThreshold > 0) =>
               callOutcome =
                   Return(Max0(callPosition.totalCollateralBase
                       - (callRatio * callPosition.totalDebtBase)
                             \div (callPosition.currentLiquidationThreshold * ScaleFactor)))
        /\ ~callOutcome.raised => callOutcome.value <= callPosition.totalCollateralBase

\* C9's case: a position with debt that can give part of its collateral.
C9_Witness ==
    /\ Called("calculateMaxWithdrawable")
    /\ ~NoDebt(callPosition)
    /\ callPosition.currentLiquidationThreshold > 0
    /\ callOutcome.value > 0
    /\ callOutcome.value < callPosition.totalCollateralBase

\* C10: calculateCollateralNeeded returns max(0, floor(targetRatio * debt /
\* (liquidationThreshold * 10^14)) - collateral), and 0 when debt or the
\* health factor is 0.
C10_CollateralNeededValue ==
    Called("calculateCollateralNeeded") =>
        /\ NoDebt(callPosition) => callOutcome = Return(0)
        /\ (~NoDebt(callPosition) /\ callPosition.currentLiquidationThreshold > 0) =>
               callOutcome =
                   Return(Max0((callRatio * callPosition.totalDebtBase)
                                   \div (callPosition.currentLiquidationThreshold * ScaleFactor)
                               - callPosition.totalCollateralBase))

\* C10's case: a position with debt that needs more collateral.
C10_Witness ==
    /\ Called("calculateCollateralNeeded")
    /\ ~NoDebt(callPosition)
    /\ callPosition.currentLiquidationThreshold > 0
    /\ callPosition.totalCollateralBase > 0
    /\ callOutcome.value > 0

\* C11: calculateRepayAmount returns debt - floor(collateral *
\* liquidationThreshold * 10^14 / targetRatio), clamped to 0, and 0 when the
\* debt or the health factor is 0, in every implementation of the repository
\* (healthFactor.ts and the earlier one of index.ts); stated for the positive
\* target ratios.
C11_RepayAmountValue ==
    (Called("calculateRepayAmount") \/ Called("calculateRepayAmountEarlier")) =>
        /\ NoDebt(callPosition) => callOutcome = Return(0)
        /\ (~NoDebt(callPosition) /\ callRatio > 0) =>
               callOutcome =
                   Return(Max0(callPosition.totalDebtBase
                       - (callPosition.totalCollateralBase
                              * callPosition.currentLiquidationThreshold * ScaleFactor)
                             \div callRatio))

\* C12: optimizeRebalanceDistribution returns an empty withdrawals map and an
\* empty supplies map, and does not raise, whenever its healthy list or its
\* unhealthy list is empty.
C12_EmptyInputEmptyPlan ==
    (/\ pc \in {"returned", "raised"}
     /\ Len(healthyPositions) = 0 \/ Len(unhealthyPositions) = 0) =>
        /\ pc = "returned"
        /\ optimalWithdrawals = EmptyMap
        /\ optimalSupplies = EmptyMap

(***************************************************************************)
(* Claims about the entry of crossChainRebalanceAavePositions (Spec).      *)
(***************************************************************************)
NoneUnhealthy ==
    \A i \in 1..Len(positions) : ~isPositionUnhealthy(positions[i], minHealthFactor)

NoneHealthy ==
    \A i \in 1..Len(positions) :
        isPositionUnhealthy(positions[i], minHealthFactor)
            \/ positions[i].totalCollateralBase = 0

Filtered == pc # "start"

\* C13 as the code has it: with no unhealthy position the call ends with the
\* exception 'No unhealthy positions to rebalance', after both filters have
\* run and with no plan made; with an unhealthy position and no healthy one
\* it ends with the exception 'No healthy positions to provide collateral'.
C13_EmptySetsThrow ==
    Filtered =>
        /\ healthyPositions = HealthyOf(positions, minHealthFactor)
        /\ NoneUnhealthy =>
               /\ pc = "thrown"
               /\ error = "No unhealthy positions to rebalance"
               /\ optimalSupplies = EmptyMap /\ optimalWithdrawals = EmptyMap
        /\ (~NoneUnhealthy /\ NoneHealthy) =>
               /\ pc = "thrown"
               /\ error = "No healthy positions to provide collateral"
               /\ optimalSupplies = EmptyMap /\ optimalWithdrawals = EmptyMap

\* C13's case: no position is unhealthy, the healthy list was filled all the
\* same, and the call threw.
C13_Witness ==
    /\ Filtered
    /\ NoneUnhealthy
    /\ Len(healthyPositions) > 0
    /\ pc = "thrown"

\* C13 as stated: with no unhealthy position the call does not raise
\* (it returns an empty plan and a status) and the healthy set is not
\* evaluated; with no healthy position it does not raise either.
C13_EmptySetsReturnStatus ==
    Filtered =>
        /\ NoneUnhealthy =>
               /\ pc # "thrown"
               /\ error = "none"
               /\ healthyPositions = <<>>
        /\ (~NoneUnhealthy /\ NoneHealthy) =>
               /\ pc # "thrown"
               /\ error = "none"

Checked == pc \in {"checked", "paired", "built"}

\* C14: whenever the healthy positions can give less in all than the
\* unhealthy positions need in all, the rebalance emits the
\* insufficient-collateral warning (and goes on with the proportional plan).
C14_ShortfallWarned ==
    (Checked /\ SumAvailable < SumNeeded) => warned

(***************************************************************************)
(* Claims about the greedy pairing (Spec).                                 *)
(***************************************************************************)
Paired == pc \in {"paired", "built"}

ChainIds == 1..NumChains

\* The amounts of the transfers drawn from a chain, and sent to a chain.
AmountFrom(c) ==
    SumSeq([i \in 1..Len(voucherRequests) |->
               IF voucherRequests[i].sourceChainId = c
               THEN voucherRequests[i].amount ELSE 0], 1)

AmountTo(c) ==
    SumSeq([i \in 1..Len(voucherRequests) |->
               IF voucherRequests[i].destinationChainId = c
               THEN voucherRequests[i].amount ELSE 0], 1)

\* C16: the amounts of voucherRequests grouped by source never exceed that
\* source's withdrawals entry, and grouped by destination never exceed that
\* destination's supplies entry.
C16_TransfersWithinPlan ==
    Paired =>
        \A c \in ChainIds :
            /\ AmountFrom(c) <= MapGet(optimalWithdrawals, c)
            /\ AmountTo(c) <= MapGet(optimalSupplies, c)

\* C16's case: one source pays two destinations, to the last unit of its
\* withdrawals entry.
C16_Witness ==
    /\ Paired
    /\ \E i, j \in 1..Len(voucherRequests) :
           /\ i # j
           /\ voucherRequests[i].sourceChainId = voucherRequests[j].sourceChainId
           /\ AmountFrom(voucherRequests[i].sourceChainId)
                  = MapGet(optimalWithdrawals, voucherRequests[i].sourceChainId)

\* The scenario of C20: chain a healthy without debt, chain b unhealthy.
ScenarioAB(a, b) ==
    /\ minHealthFactor = DefaultMinHealthFactor
    /\ Len(positions) = 2
    /\ \E i, j \in 1..2 :
           /\ positions[i] = AavePosition(a, 0, 1000, 0, 8000)
           /\ positions[j] = AavePosition(b, 888888, 100, 90, 8000)

\* C20: with healthy chain A (collateral 1000, no debt, health factor 0) and
\* unhealthy chain B (collateral 100, debt 90, liquidation threshold 8000)
\* at min ratio 1.2e18, B needs 35, A can give 500, the plan is
\* supplies = {B: 35} and withdrawals = {A: 35}, and voucherRequests is the
\* one transfer of 35 from A to B.
C20_ScenarioPlan ==
    \A a, b \in ChainIds :
        (Paired /\ ScenarioAB(a, b)) =>
            /\ NeededOf(1) = 35
            /\ AvailableOf(1) = 500
            /\ optimalSupplies = MapSet(EmptyMap, b, 35)
            /\ optimalWithdrawals = MapSet(EmptyMap, a, 35)
            /\ voucherRequests = <<VoucherRequest(a, b, 35)>>

\* C20's case: the scenario, paired.
C20_Witness ==
    /\ Paired
    /\ \E a, b \in ChainIds : ScenarioAB(a, b)
    /\ Len(voucherRequests) = 1

(***************************************************************************)
(* Claims about the plan of a direct optimizer call (SpecOptimizer).       *)
(***************************************************************************)
ChainIdsOf(list) == {list[i].chainId : i \in 1..Len(list)}

\* C15: in every plan optimizeRebalanceDistribution returns, each key of
\* supplies is the chainId of an unhealthy input position, each key of
\* withdrawals is the chainId of a healthy input position, and each amount
\* is >= 0.
C15_PlanKeysAndAmounts ==
    pc = "returned" =>
        /\ DOMAIN optimalSupplies \subseteq ChainIdsOf(unhealthyPositions)
        /\ DOMAIN optimalWithdrawals \subseteq ChainIdsOf(healthyPositions)
        /\ \A c \in DOMAIN optimalSupplies : optimalSupplies[c] >= 0
        /\ \A c \in DOMAIN optimalWithdrawals : optimalWithdrawals[c] >= 0

\* C15's case: a returned plan with a supply and a withdrawal in it.
C15_Witness ==
    /\ pc = "returned"
    /\ DOMAIN optimalSupplies # {}
    /\ DOMAIN optimalWithdrawals # {}

(***************************************************************************)
(* Claims about the batches built (SpecBuild).                             *)
(***************************************************************************)
Built == pc = "built"

SourceChains == {voucherRequests[i].sourceChainId : i \in 1..Len(voucherRequests)}

DestinationChains == {voucherRequests[i].destinationChainId : i \in 1..Len(voucherRequests)}

\* The destination chains whose batch was built to its end.
ProcessedDestinations ==
    {c \in DOMAIN batches \cap DestinationChains : batches[c].ended > 0}

\* C17: no transfer has amount 0 or goes from a chain to itself, be it a
\* pair of the greedy pairing, the voucher a source batch requests, or the
\* forward a destination batch requests for the next destination.
C17_NoEmptyOrSelfTransfer ==
    /\ \A i \in 1..Len(voucherRequests) :
           /\ voucherRequests[i].amount > 0
           /\ voucherRequests[i].sourceChainId # voucherRequests[i].destinationChainId
    /\ \A c \in DOMAIN batches :
           \A k \in 1..Len(batches[c].requests) :
               /\ batches[c].requests[k].amount > 0
               /\ batches[c].requests[k].destinationChainId # c

\* C17's case: two pairs from one source, and a destination batch that
\* forwards to the next destination.
C17_Witness ==
    /\ Built
    /\ Len(voucherRequests) >= 2
    /\ \E c \in ProcessedDestinations : Len(batches[c].requests) > 0

\* The amount of the voucher a ref names: what the batches of the plan
\* requested under that ref.
RequestedUnder(ref) ==
    LET amounts(c) == [k \in 1..Len(batches[c].requests) |->
                          IF batches[c].requests[k].ref = ref
                          THEN batches[c].requests[k].amount ELSE 0]
        chains == [c \in 1..NumChains |->
                      IF c \in DOMAIN batches THEN SumSeq(amounts(c), 1) ELSE 0]
    IN  SumSeq(chains, 1)

\* What a batch receives: the amounts of the vouchers it redeems.
Received(c) ==
    SumSeq([k \in 1..Len(batches[c].used) |-> RequestedUnder(batches[c].used[k])], 1)

Supplied(c) == SumSeq(batches[c].supplied, 1)

\* C18: a destination that forwards to the next one forwards what it
\* received minus what it supplied, and a destination that forwards nothing
\* (the last of its chain among them) supplies all it received.
C18_ChainConservation ==
    Built =>
        \A c \in ProcessedDestinations :
            IF Len(batches[c].requests) > 0
            THEN batches[c].requests[1].amount = Received(c) - Supplied(c)
            ELSE Supplied(c) = Received(c)

\* A source chain whose batch gets its withdraw action and its voucher: its
\* addresses and client are there and the amount to withdraw, in tokens,
\* is not 0.
SourceIssues(c) ==
    /\ network[c].poolAddress /\ network[c].tokenAddress /\ network[c].client
    /\ convertUSDBaseToTokenAmount(AmountFrom(c), network[c]) > 0

\* C19 as the code has it: no batch has more than one outbound voucher
\* request; the batch of a source chain has exactly one when the chain's
\* addresses and client are there and its amount in tokens is not 0, and
\* none otherwise.
C19_AtMostOneVoucherPerBatch ==
    Built =>
        /\ \A c \in DOMAIN batches : Len(batches[c].requests) <= 1
        /\ \A c \in SourceChains :
               IF SourceIssues(c)
               THEN c \in DOMAIN batches /\ Len(batches[c].requests) = 1
               ELSE c \in DOMAIN batches => Len(batches[c].requests) = 0

\* C19's case: a source matched to two destinations with its one voucher,
\* and a destination with its one forward.
C19_Witness ==
    /\ Built
    /\ \E c \in SourceChains :
           /\ Len(vouchersBySourceChain(voucherRequests, c)) = 2
           /\ c \in DOMAIN batches
           /\ Len(batches[c].requests) = 1
    /\ \E c \in ProcessedDestinations : Len(batches[c].requests) = 1

\* C19 as stated: no batch has more than one outbound voucher request and
\* every source chain's batch has exactly one.
C19_EverySourceIssuesOne ==
    Built =>
        /\ \A c \in DOMAIN batches : Len(batches[c].requests) <= 1
        /\ \A c \in SourceChains :
               c \in DOMAIN batches /\ Len(batches[c].requests) = 1

\* The source chains the greedy pairing matched to a destination.
SourcesMatchedTo(d) ==
    {voucherRequests[i].sourceChainId :
        i \in {k \in 1..Len(voucherRequests) : voucherRequests[k].destinationChainId = d}}

\* Every chain the builder reads from gives its addresses, its client, a
\* token of 8 decimals at one dollar and an aToken balance above any amount.
AllChainsAnswer ==
    \A c \in DOMAIN network : network[c] = ChainAnswer(TRUE, TRUE, TRUE, 8, 100, 100000)

\* The batch of chain c gives the ref to useVoucher.
Redeems(c, ref) ==
    /\ c \in DOMAIN batches
    /\ \E k \in 1..Len(batches[c].used) : batches[c].used[k] = ref

\* C21: a destination matched to two or more sources redeems the voucher of
\* every one of them and supplies the sum of the amounts matched to it, and
\* every voucher a batch requests is redeemed by the batch of the chain it
\* is addressed to (stated where every chain answers, so that no leg is
\* skipped).
C21_EverySourceVoucherRedeemed ==
    (Built /\ AllChainsAnswer) =>
        /\ \A d \in DestinationChains :
               Cardinality(SourcesMatchedTo(d)) >= 2 =>
                   /\ \A s \in SourcesMatchedTo(d) : Redeems(d, VoucherRef(s, d))
                   /\ Supplied(d) = convertUSDBaseToTokenAmount(AmountTo(d), network[d])
        /\ \A c \in DOMAIN batches :
               \A k \in 1..Len(batches[c].requests) :
                   Redeems(batches[c].requests[k].destinationChainId,
                           batches[c].requests[k].ref)

\* Some batch of the plan gave the ref to addVoucherRequest, addressed to
\* chain d.
RequestedTowards(ref, d) ==
    \E c \in DOMAIN batches :
        \E k \in 1..Len(batches[c].requests) :
            /\ batches[c].requests[k].ref = ref
            /\ batches[c].requests[k].destinationChainId = d

\* Every chain the builder reads from gives its addresses and its client.
AllChainsReachable ==
    \A c \in DOMAIN network :
        network[c].poolAddress /\ network[c].tokenAddress /\ network[c].client

\* C22: every ref a batch gives to useVoucher names a voucher that some
\* batch of the plan requested towards that batch's chain (stated where
\* every chain has its addresses and its client).
C22_RedeemedVouchersWereRequested ==
    (Built /\ AllChainsReachable) =>
        \A c \in DOMAIN batches :
            \A k \in 1..Len(batches[c].used) : RequestedTowards(batches[c].used[k], c)

\* The destination chains the greedy pairing matched to a source.
DestinationsMatchedTo(s) ==
    {voucherRequests[i].destinationChainId :
        i \in {k \in 1..Len(voucherRequests) : voucherRequests[k].sourceChainId = s}}

\* The health factor of the unhealthy position of a destination chain.
RiskRatioOf(d) == FindPosition(unhealthyPositions, d).healthFactor

\* The voucher of a source chain's batch is addressed to a destination
\* matched to that source whose health factor is the lowest among them.
ToLowestRatioDestination(c) ==
    LET to == batches[c].requests[1].destinationChainId
    IN  /\ batches[c].requests[1].ref = VoucherRef(c, to)
        /\ to \in DestinationsMatchedTo(c)
        /\ \A d \in DestinationsMatchedTo(c) : RiskRatioOf(to) <= RiskRatioOf(d)

\* The source chains whose batch requested a voucher.
IssuingSources == {c \in SourceChains \cap DOMAIN batches : Len(batches[c].requests) = 1}

\* C23 as the code has it: the voucher of a source chain carries all the
\* batch withdraws, which is the sum of the amounts matched to the source
\* converted to token units, or the aToken balance when that is above 0 and
\* smaller; it is addressed to the matched destination of lowest health
\* factor.
C23_VoucherCarriesWholeWithdrawal ==
    Built =>
        \A c \in IssuingSources :
            /\ batches[c].withdrawn = <<batches[c].requests[1].amount>>
            /\ batches[c].requests[1].amount =
                   actualWithdrawAmount(network[c].aTokenBalance,
                       convertUSDBaseToTokenAmount(AmountFrom(c), network[c]))
            /\ ToLowestRatioDestination(c)

\* C23's case: a source matched to two destinations of different health
\* factors, whose aToken balance is below the amount matched to it.
C23_Witness ==
    /\ Built
    /\ \E c \in IssuingSources :
           /\ \E d, e \in DestinationsMatchedTo(c) : RiskRatioOf(d) < RiskRatioOf(e)
           /\ network[c].aTokenBalance
                  < convertUSDBaseToTokenAmount(AmountFrom(c), network[c])

\* C23 as stated: the voucher of a source chain carries the sum of the
\* amounts matched to the source (in token units) and is addressed to the
\* matched destination of lowest health factor.
C23_VoucherCarriesMatchedSum ==
    Built =>
        \A c \in IssuingSources :
            /\ batches[c].requests[1].amount =
                   convertUSDBaseToTokenAmount(AmountFrom(c), network[c])
            /\ ToLowestRatioDestination(c)

(***************************************************************************)
(* Claims about the order in which the plan and the pairing draw.          *)
(***************************************************************************)
\* What the plan withdraws from the i-th healthy position.
WithdrawnOf(i) == MapGet(optimalWithdrawals, healthyPositions[i].chainId)

\* The i-th healthy position comes before the k-th in descending order of
\* health factor with the sentinel 0 last.
DrawnBefore(i, k) ==
    /\ healthyPositions[i].healthFactor # 0
    /\ \/ healthyPositions[k].healthFactor = 0
       \/ healthyPositions[i].healthFactor > healthyPositions[k].healthFactor

SourceRatioOf(c) == FindPosition(healthyPositions, c).healthFactor

\* What the instructions before the i-th took from the i-th's source, and
\* what they gave to its destination.
TakenBefore(i) ==
    SumSeq([k \in 1..(i - 1) |->
               IF voucherRequests[k].sourceChainId = voucherRequests[i].sourceChainId
               THEN voucherRequests[k].amount ELSE 0], 1)

GivenBefore(i) ==
    SumSeq([k \in 1..(i - 1) |->
               IF voucherRequests[k].destinationChainId
                      = voucherRequests[i].destinationChainId
               THEN voucherRequests[k].amount ELSE 0], 1)

Min2(a, b) == IF a < b THEN a ELSE b

\* C25: the instructions come with their destinations in ascending order of
\* health factor; those of one destination come one after another with
\* their sources in descending order of health factor, debt-free sources
\* last; each amount is the smaller of what the source's withdrawal has left
\* and what the destination still needs; and a destination is left when its
\* need is met or no source has anything left.
C25_PairingOrderAndAmounts ==
    Paired =>
        /\ \A i, j \in 1..Len(voucherRequests) :
               i < j =>
                   LET a == voucherRequests[i]
                       b == voucherRequests[j]
                   IN  /\ RiskRatioOf(a.destinationChainId)
                              <= RiskRatioOf(b.destinationChainId)
                       /\ a.destinationChainId = b.destinationChainId =>
                              /\ \A k \in i..j : voucherRequests[k].destinationChainId
                                                     = a.destinationChainId
                              /\ a.sourceChainId # b.sourceChainId
                              /\ SourceRatioOf(b.sourceChainId) # 0 =>
                                     /\ SourceRatioOf(a.sourceChainId) # 0
                                     /\ SourceRatioOf(a.sourceChainId)
                                            >= SourceRatioOf(b.sourceChainId)
        /\ \A i \in 1..Len(voucherRequests) :
               voucherRequests[i].amount =
                   Min2(MapGet(optimalWithdrawals, voucherRequests[i].sourceChainId)
                            - TakenBefore(i),
                        MapGet(optimalSupplies, voucherRequests[i].destinationChainId)
                            - GivenBefore(i))
        /\ \A d \in DOMAIN optimalSupplies :
               \/ AmountTo(d) = optimalSupplies[d]
               \/ \A c \in DOMAIN optimalWithdrawals : AmountFrom(c) = optimalWithdrawals[c]

\* C25's case: a destination paired first with a source that has debt and
\* then with a debt-free one.
C25_Witness ==
    /\ Paired
    /\ Len(voucherRequests) = 2
    /\ voucherRequests[1].destinationChainId = voucherRequests[2].destinationChainId
    /\ SourceRatioOf(voucherRequests[1].sourceChainId) # 0
    /\ SourceRatioOf(voucherRequests[2].sourceChainId) = 0
    /\ voucherRequests[1].sourceChainId > voucherRequests[2].sourceChainId

(***************************************************************************)
(* Claims about positions that share a chainId (SpecOptimizerShared).      *)
(***************************************************************************)
\* The sums, chain by chain, of what the unhealthy positions need and of
\* what the healthy positions can give.
SumNeededOn(c) ==
    SumSeq([i \in 1..Len(unhealthyPositions) |->
               IF unhealthyPositions[i].chainId = c THEN NeededOf(i) ELSE 0], 1)

SumAvailableOn(c) ==
    SumSeq([i \in 1..Len(healthyPositions) |->
               IF healthyPositions[i].chainId = c THEN AvailableOf(i) ELSE 0], 1)

\* C26: needsByChain has for each chain the sum of calculateCollateralNeeded
\* over the unhealthy positions of that chain, and availableByChain the sum
\* of calculateMaxWithdrawable over the healthy positions of that chain,
\* also when several positions share a chainId.
C26_PerChainSums ==
    pc = "returned" =>
        \A c \in SharedChainIds :
            /\ MapGet(needsByChain(unhealthyPositions, minHealthFactor), c) = SumNeededOn(c)
            /\ MapGet(availableByChain(healthyPositions, minHealthFactor), c)
                   = SumAvailableOn(c)

(***************************************************************************)
(* Claims about the comparators of the sorts.                              *)
(***************************************************************************)
\* C27: the comparators never put a after b and b after a at once (nor a
\* before b and b before a), for any two healthy positions under the
\* descending comparator and any two unhealthy positions under the
\* ascending one, equal health factors and two sentinels 0 included; and
\* the call has one plan to give, whatever the order of its input.
C27_ComparatorsConsistent ==
    Planned =>
        /\ \A i, j \in 1..Len(healthyPositions) :
               i # j =>
                   (CompareHighestFirst(healthyPositions[i], healthyPositions[j]) > 0)
                       # (CompareHighestFirst(healthyPositions[j], healthyPositions[i]) > 0)
        /\ \A i, j \in 1..Len(unhealthyPositions) :
               i # j =>
                   (CompareWorstFirst(unhealthyPositions[i], unhealthyPositions[j]) > 0)
                       # (CompareWorstFirst(unhealthyPositions[j], unhealthyPositions[i]) > 0)
        /\ Cardinality(optimizeRebalanceDistribution(healthyPositions, unhealthyPositions,
                                                     minHealthFactor)) = 1

\* What is left of a destination's need after the pairing: line 136.
RemainingNeedOf(d) == MapGet(optimalSupplies, d) - AmountTo(d)

\* C28: healthy and unhealthy chain ids being disjoint, the pairing matches
\* every entry of supplies in full: no destination is left with a need, and
\* the amounts of all instructions add up to the sum of supplies, in the
\* sufficient and in the shortfall case.
C28_SuppliesMatchedInFull ==
    (Paired /\ ChainIdsOf(healthyPositions) \cap ChainIdsOf(unhealthyPositions) = {}) =>
        /\ \A d \in DOMAIN optimalSupplies : RemainingNeedOf(d) = 0
        /\ SumSeq([i \in 1..Len(voucherRequests) |-> voucherRequests[i].amount], 1)
               = MapSum(optimalSupplies)

\* C28's case: a shortfall whose two destinations are both matched in full.
C28_Witness ==
    /\ Paired
    /\ SumAvailable < SumNeeded
    /\ Cardinality(DestinationChains) = 2
    /\ MapSum(optimalSupplies) > 0
    /\ \A d \in DOMAIN optimalSupplies : RemainingNeedOf(d) = 0

\* C29: when the plan goes to buildAndSign every batch that was started has
\* been ended exactly once (batchesByChain holds one batch for a chain at
\* most); stated where every chain has its addresses and its client, which
\* leaves the sources whose amount to withdraw is 0 token units.
C29_EveryBatchEndedOnce ==
    (Built /\ AllChainsReachable) =>
        \A c \in DOMAIN batches : batches[c].ended = 1

(***************************************************************************)
(* Claims about fetchWalletClient (SpecWallet).                            *)
(***************************************************************************)
WalletDone == pc \in {"returned", "raised"}

\* The last check found the connector ready and no check before it did.
ReadyAtLastCheckOnly ==
    /\ Len(accounts) >= 1
    /\ ConnectorReady(accounts[Len(accounts)])
    /\ \A k \in 1..(Len(accounts) - 1) : ~ConnectorReady(accounts[k])

NeverReady == \A k \in 1..Len(accounts) : ~ConnectorReady(accounts[k])

\* What holds of every state of a call of fetchWalletClient.
PollingInOrder ==
    /\ Len(accounts) <= MaxAttempts
    /\ \A k \in 1..(Len(accounts) - 1) : ~ConnectorReady(accounts[k])
    /\ walletClient # "undefined"
    /\ WalletDone =>
           /\ delays = Len(accounts) - 1
           /\ walletClient # "pending"
           /\ walletClient \in {"WalletClient", "getWalletClient error"}
                  <=> ReadyAtLastCheckOnly
           /\ walletClient = "Connector not ready after maximum attempts"
                  <=> (NeverReady /\ Len(accounts) = MaxAttempts)

====
